---- MODULE Spec2Model ----
(***************************************************************************)
(* md-to-epub: one conversion (single-document or chapter mode) from the   *)
(* parsed markdown inputs to the packaged EPUB archive (Spec, SpecTitled), *)
(* the bulk conversion loop around it (SpecBulk), and three helpers on     *)
(* their own: parseMarkdown called concurrently (SpecCalls), the footnote  *)
(* extensions inside marked (SpecFootnotes), downloadImage (SpecDownload). *)
(*                                                                         *)
(* Text values (titles, labels) are sequences of chunks: a chunk is either *)
(* one XML-special character or a run of ordinary characters.  File names  *)
(* are records [stem, ext]; paths are records [remote, dir, name].         *)
(***************************************************************************)
EXTENDS Integers, Sequences, FiniteSets, TLC

VARIABLES
    mode,            \* "single" (convertMarkdownToEpub) or "chapters"
    inputs,          \* the markdown files named by inputPath / inputPaths
    config,          \* the Config passed by the caller
    pc,              \* position of the conversion
    i,               \* loop index of convertMarkdownFilesToChapters (0-based)
    parsedImages,    \* module-level list of markdown-parser.ts
    currentBaseDir,  \* module-level base directory of markdown-parser.ts
    uuidCount,       \* number of uuidv4() tokens handed out so far
    chapters,        \* Chapter[] built by convertMarkdownFilesToChapters
    images,          \* ImageReference[] handed to the generator
    seenImages,      \* Set<string> of convertMarkdownFilesToChapters
    html,            \* content of the single document (list of rewritten tags)
    metadata,        \* EpubMetadata
    tempDir,         \* [exists, files]: the staging directory of this call
    opf,             \* content.opf as written: [written, manifest, spine]
    ncx,             \* toc.ncx as written: [written, docTitle, navPoints]
    k,               \* loop index of the image copy loop (1-based)
    warnings,        \* console.warn lines emitted
    archive,         \* entries appended to the zip, in order
    outputFile,      \* "absent", "partial" or "complete": the file at outputPath
    thrown,          \* the error travelling to the caller: "none", "input", ...
    result,          \* "pending", "resolved" or "rejected": the returned promise
    xhtml,           \* the content documents as written: [name, title, body]
    outputDir,       \* "absent" or "created": the directory of outputPath
    bulk,            \* the loop of convertMultipleMarkdownToEpub
    calls,           \* the parseMarkdown calls a caller runs side by side
    fn,              \* marked at work on a document with footnotes
    dl,              \* one call of downloadImage and the servers it talks to
    jobs,            \* two calls of generateEpub running side by side
    serial           \* parseMarkdown called again and again, one call at a time

\* the state of the callers and helpers studied on their own
sideVars == << bulk, calls, fn, dl, jobs, serial >>

vars == << mode, inputs, config, pc, i, parsedImages, currentBaseDir, uuidCount,
           chapters, images, seenImages, html, metadata, tempDir, opf, ncx, k,
           warnings, archive, outputFile, thrown, result, xhtml, outputDir,
           sideVars >>

-----------------------------------------------------------------------------
(* Bounds of the model *)

\* longest list of input documents
MaxDocs == 2
\* most image references over all input documents together
MaxRefs == 2
\* most image references over all input documents of a titled conversion
MaxTitledRefs == 1
\* longest list of input paths of a bulk conversion
MaxBulk == 3
\* most image references in a file handed to parseMarkdown directly
MaxCallRefs == 2
\* most lines of a document with footnotes
MaxLines == 4

-----------------------------------------------------------------------------
(* Input universe *)

FileName(stem, ext) == [stem |-> stem, ext |-> ext]

LocalPath(dir, name) == [remote |-> FALSE, dir |-> dir, name |-> name]

RemotePath(dir, name) == [remote |-> TRUE, dir |-> dir, name |-> name]

\* image references as written in the markdown: two local ones sharing a base
\* filename in different directories, and one remote one
ImageSrcs ==
    { LocalPath(<<"img">>, FileName("x", ".png")),
      LocalPath(<<"alt">>, FileName("x", ".png")),
      RemotePath(<<"https:", "", "host">>, FileName("y", ".jpg")) }

H1(text) == [kind |-> "h1", text |-> text, src |-> LocalPath(<<>>, FileName("", ""))]

H2(text) == [kind |-> "h2", text |-> text, src |-> LocalPath(<<>>, FileName("", ""))]

Img(src) == [kind |-> "img", text |-> <<>>, src |-> src]

\* a markdown file with top-level headings around its images
HeadedFile(refs) ==
    [ path   |-> LocalPath(<<"book">>, FileName("one", ".md")),
      exists |-> TRUE,
      lines  |-> <<H2(<<"Preface">>), H1(<<"Q", "&", "A">>)>>
                \o [n \in 1..Len(refs) |-> Img(refs[n])]
                \o <<H1(<<"Z">>)>> ]

\* a markdown file without any top-level heading
PlainFile(refs) ==
    [ path   |-> LocalPath(<<"book", "part">>, FileName("two", ".md")),
      exists |-> TRUE,
      lines  |-> <<H2(<<"Notes">>)>> \o [n \in 1..Len(refs) |-> Img(refs[n])] ]

\* a markdown file one directory down that shares its name with HeadedFile
NestedFile ==
    [ path   |-> LocalPath(<<"book", "part">>, FileName("one", ".md")),
      exists |-> TRUE,
      lines  |-> <<H2(<<"Notes">>)>> ]

\* an input path naming no file
MissingFile ==
    [ path   |-> LocalPath(<<"book">>, FileName("gone", ".md")),
      exists |-> FALSE,
      lines  |-> <<>> ]

MarkdownFile(kind, refs) ==
    CASE kind = "headed" -> HeadedFile(refs)
      [] kind = "plain"  -> PlainFile(refs)
      [] OTHER           -> MissingFile

FileKinds == {"headed", "plain", "missing"}

RECURSIVE SeqsUpTo(_, _)
SeqsUpTo(S, n) ==
    IF n = 0 THEN { <<>> }
    ELSE LET shorter == SeqsUpTo(S, n - 1)
         IN  shorter \cup { Append(s, x) : s \in { t \in shorter : Len(t) = n - 1 }, x \in S }

\* the ways of dealing t references, in order, to n documents
Deals(t, n) ==
    { f \in [1..t -> 1..n] : \A a, b \in 1..t : a <= b => f[a] <= f[b] }

\* the references of `flat` that `owner` deals to document d, in order
RECURSIVE RefsOf(_, _, _, _)
RefsOf(flat, owner, d, n) ==
    IF n > Len(flat) THEN <<>>
    ELSE IF owner[n] = d
         THEN <<flat[n]>> \o RefsOf(flat, owner, d, n + 1)
         ELSE RefsOf(flat, owner, d, n + 1)

\* the list of n files of the given kinds holding the references of `flat`
\* as `owner` deals them
InputList(n, kind, flat, owner) ==
    [ d \in 1..n |-> MarkdownFile(kind[d], RefsOf(flat, owner, d, 1)) ]

NoPath == LocalPath(<<>>, FileName("", ""))

CoverPath == LocalPath(<<"art">>, FileName("front", ".png"))

NoText == <<>>

\* a Config in which nothing is given
NoConfig ==
    [ cover |-> NoPath, title |-> NoText, identifier |-> "", author |-> NoText,
      publisher |-> NoText, description |-> NoText, rights |-> NoText ]

\* a title given with --title / config.title
GivenTitle == << "Tom ", "&", " Jerry" >>

\* a Config with every text given, the five XML-special characters among them
FullConfig ==
    [ NoConfig EXCEPT !.title       = GivenTitle,
                      !.author      = << "Flann O", "'", "Brien" >>,
                      !.publisher   = << "<", "Small Press", ">" >>,
                      !.description = << "A ", "\"", "tale", "\"", " of cats ", "&", " mice" >>,
                      !.rights      = << "(c) A ", "&", " B, ", "'", "26" >> ]

\* configurations with and without a title override, and with all texts given
TitledConfigs ==
    { NoConfig, [NoConfig EXCEPT !.title = GivenTitle], FullConfig }

\* an identifier given with --identifier / config.identifier
GivenIdentifier == "urn:isbn:<9780000000002>"

\* configurations with and without an identifier
IdentifiedConfigs ==
    { [NoConfig EXCEPT !.identifier = id] : id \in {"", GivenIdentifier} }

Configs == { [NoConfig EXCEPT !.cover = c] : c \in {NoPath, CoverPath} }

-----------------------------------------------------------------------------
(* path helpers of node, on the path records *)

basename(p) == p.name.stem \o p.name.ext

stemOf(p) == p.name.stem

extname(p) == p.name.ext

dirname(p) == p.dir

isRemote(p) == p.remote

resolve(baseDir, href) == LocalPath(baseDir \o href.dir, href.name)

\* uuidv4(): the n-th token handed out
uuidv4(n) == "uuid" \o ToString(n)

-----------------------------------------------------------------------------
(* markdown-parser.ts *)

mimeLookup(p) ==
    CASE extname(p) = ".png" -> "image/png"
      [] extname(p) = ".jpg" -> "image/jpeg"
      [] extname(p) = ".gif" -> "image/gif"
      [] OTHER               -> ""

\* the ImageReference pushed for one image node
customImageRenderer(href, baseDir, n) ==
    [ src          |-> href,
      resolvedPath |-> IF isRemote(href) THEN href ELSE resolve(baseDir, href),
      mediaType    |-> IF mimeLookup(href) # "" THEN mimeLookup(href) ELSE "image/jpeg",
      id           |-> "img-" \o uuidv4(n) ]

\* a tag that keeps the directory of the written reference
imageTagAsWritten(href) == "images/" \o Head(href.dir) \o "/" \o basename(href)

\* the tag the renderer returns for one image node
imageTag(href) == "images/" \o basename(href)

ImageLines(lines) == SelectSeq(lines, LAMBDA l : l.kind = "img")

\* marked.parse: the image list accumulated while rendering
renderImages(lines, baseDir, n) ==
    [ m \in 1..Len(ImageLines(lines)) |->
        customImageRenderer(ImageLines(lines)[m].src, baseDir, n + m - 1) ]

renderHtml(lines) ==
    [ m \in 1..Len(ImageLines(lines)) |-> imageTag(ImageLines(lines)[m].src) ]

\* first line matching /^#\s+(.+)$/m, or no text
extractTitle(lines) ==
    LET h1 == SelectSeq(lines, LAMBDA l : l.kind = "h1")
    IN  IF h1 = <<>> THEN NoText ELSE h1[1].text

\* a read that hands back empty text for a file that is not there
readFileOrEmpty(file) == TRUE

\* line 135: whether fs.promises.readFile(filePath) yields the text (it
\* rejects for a path that names no file)
readFile(file) == file.exists

\* what parseMarkdown returns for an existing file
parseMarkdown(file, n) ==
    [ html   |-> renderHtml(file.lines),
      images |-> renderImages(file.lines, dirname(file.path), n),
      title  |-> extractTitle(file.lines) ]

-----------------------------------------------------------------------------
(* epub-generator.ts: the generated documents *)

\* the map of escapeXml without its last entry
escapeChunkNoApos(c) ==
    CASE c = "&"  -> "&amp;"
      [] c = "<"  -> "&lt;"
      [] c = ">"  -> "&gt;"
      [] c = "\"" -> "&quot;"
      [] OTHER    -> c

escapeChunk(c) ==
    CASE c = "&"  -> "&amp;"
      [] c = "<"  -> "&lt;"
      [] c = ">"  -> "&gt;"
      [] c = "\"" -> "&quot;"
      [] c = "'"  -> "&apos;"
      [] OTHER    -> c

escapeXml(text) == [n \in 1..Len(text) |-> escapeChunk(text[n])]

Item(id, href, mediaType) == [id |-> id, href |-> href, mediaType |-> mediaType]

\* the id written with plain quotes instead of a template literal
imageItemIdLiteral(idx) == "image-${idx}"

\* id of the manifest item of the image at (0-based) index idx
imageItemId(idx) == "image-" \o ToString(idx)

imageManifest(imgs) ==
    [ n \in 1..Len(imgs) |->
        Item(imageItemId(n - 1), "images/" \o basename(imgs[n].src), imgs[n].mediaType) ]

coverItem(md) ==
    IF md.cover # NoPath
    THEN << Item("cover-image", "images/cover" \o extname(md.cover), "image/jpeg") >>
    ELSE << >>

getContentOpf(md, imgs) ==
    [ written    |-> TRUE,
      identifier |-> md.identifier,
      title      |-> escapeXml(md.title),
      creator     |-> escapeXml(md.author),
      publisher   |-> escapeXml(md.publisher),
      description |-> escapeXml(md.description),
      rights      |-> escapeXml(md.rights),
      manifest   |-> << Item("ncx", "toc.ncx", "application/x-dtbncx+xml"),
                        Item("style", "css/style.css", "text/css"),
                        Item("content", "content.xhtml", "application/xhtml+xml") >>
                     \o coverItem(md) \o imageManifest(imgs),
      spine      |-> << "content" >> ]

NavPoint(n, label, src) ==
    [id |-> "navpoint-" \o ToString(n), playOrder |-> n, label |-> label, src |-> src]

getTocNcx(md) ==
    [ written   |-> TRUE,
      uid       |-> md.identifier,
      docTitle  |-> escapeXml(md.title),
      navPoints |-> << NavPoint(1, escapeXml(md.title), "content.xhtml") >> ]

chapterManifest(chs) ==
    [ n \in 1..Len(chs) |->
        Item(chs[n].id, chs[n].id \o ".xhtml", "application/xhtml+xml") ]

\* the spine numbered by the (0-based) position instead of the chapter's id
chapterSpineByIndex(chs) == [ n \in 1..Len(chs) |-> "chapter-" \o ToString(n - 1) ]

chapterSpine(chs) == [ n \in 1..Len(chs) |-> chs[n].id ]

getMultiChapterContentOpf(md, imgs, chs) ==
    [ written    |-> TRUE,
      identifier |-> md.identifier,
      title      |-> escapeXml(md.title),
      creator     |-> escapeXml(md.author),
      publisher   |-> escapeXml(md.publisher),
      description |-> escapeXml(md.description),
      rights      |-> escapeXml(md.rights),
      manifest   |-> << Item("ncx", "toc.ncx", "application/x-dtbncx+xml"),
                        Item("style", "css/style.css", "text/css") >>
                     \o chapterManifest(chs) \o coverItem(md) \o imageManifest(imgs),
      spine      |-> chapterSpine(chs) ]

navPoints(chs) ==
    [ n \in 1..Len(chs) |-> NavPoint(n, escapeXml(chs[n].title), chs[n].id \o ".xhtml") ]

getMultiChapterTocNcx(md, chs) ==
    [ written   |-> TRUE,
      uid       |-> md.identifier,
      docTitle  |-> escapeXml(md.title),
      navPoints |-> navPoints(chs) ]

\* lines 467-479: one content document; the title goes through escapeXml, the
\* body is the parser's html as it is
getContentXhtml(name, body, title) ==
    [name |-> name, title |-> escapeXml(title), body |-> body]

\* lines 229-236: one content document per chapter, titled by the chapter
chapterDocuments(chs) ==
    [ n \in 1..Len(chs) |->
        getContentXhtml(chs[n].id \o ".xhtml", chs[n].html, chs[n].title) ]

NotWritten == [written |-> FALSE]

-----------------------------------------------------------------------------
(* converter.ts *)

\* line 15: fs.existsSync(inputPath)
existsSync(file) == file.exists

\* a || b on text values: b when a is undefined or empty
OrText(a, b) == IF a # NoText THEN a ELSE b

\* the chapter id without the + 1
chapterIdZeroBased(n) == "chapter-" \o ToString(n)

\* id of the chapter made from inputPaths[n] (0-based n)
chapterId(n) == "chapter-" \o ToString(n + 1)

newChapter(n, file, parsed) ==
    [ title |-> OrText(parsed.title, << stemOf(file.path) >>),
      html  |-> parsed.html,
      id    |-> chapterId(n),
      order |-> n + 1 ]

\* the key taken from the whole written reference
imageKeyBySrc(image) == image.src.dir \o << basename(image.src) >>

\* the key under which convertMarkdownFilesToChapters remembers an image
imageKey(image) == basename(image.src)

\* the "collect unique images" loop over one parsed file
RECURSIVE collectUnique(_, _, _)
collectUnique(all, seen, imgs) ==
    IF imgs = << >> THEN [all |-> all, seen |-> seen]
    ELSE IF imageKey(Head(imgs)) \notin seen
         THEN collectUnique(Append(all, Head(imgs)),
                            seen \cup {imageKey(Head(imgs))}, Tail(imgs))
         ELSE collectUnique(all, seen, Tail(imgs))

\* the title read from the first heading before the override
metadataTitleHeadingFirst(cfgTitle, heading, name) ==
    OrText(heading, OrText(cfgTitle, name))

\* line 37: config?.title || title || path.basename(inputPath, ext)
metadataTitle(cfgTitle, heading, name) ==
    OrText(cfgTitle, OrText(heading, name))

\* line 168: config?.title || path.basename(inputPaths[0], ext)
bookTitle(cfgTitle, name) == OrText(cfgTitle, name)

\* the identifier made from one token drawn when the module is loaded
newMetadataOneToken(title, cfg, n) ==
    [ title      |-> title,
      identifier |-> IF cfg.identifier # "" THEN cfg.identifier
                     ELSE "urn:uuid:" \o uuidv4(0),
      cover      |-> cfg.cover,
      author      |-> OrText(cfg.author, << "Unknown Author" >>),
      publisher   |-> cfg.publisher,
      description |-> cfg.description,
      rights      |-> OrText(cfg.rights, << "All rights reserved" >>) ]

newMetadata(title, cfg, n) ==
    [ title      |-> title,
      identifier |-> IF cfg.identifier # "" THEN cfg.identifier
                     ELSE "urn:uuid:" \o uuidv4(n),
      cover      |-> cfg.cover,
      author      |-> OrText(cfg.author, << "Unknown Author" >>),
      publisher   |-> cfg.publisher,
      description |-> cfg.description,
      rights      |-> OrText(cfg.rights, << "All rights reserved" >>) ]

NoMetadata ==
    [ title |-> NoText, identifier |-> "", cover |-> NoPath, author |-> NoText,
      publisher |-> NoText, description |-> NoText, rights |-> NoText ]

NoDir == [exists |-> FALSE, name |-> "", files |-> {}]

-----------------------------------------------------------------------------
(* Initial state: a caller is about to convert one list of inputs *)

\* the module-level state of a freshly loaded process, nothing staged, nothing
\* written
Blank ==
    /\ i = 0
    /\ parsedImages = << >>
    /\ currentBaseDir = << >>
    /\ uuidCount = 0
    /\ chapters = << >>
    /\ images = << >>
    /\ seenImages = {}
    /\ html = << >>
    /\ metadata = NoMetadata
    /\ tempDir = NoDir
    /\ opf = NotWritten
    /\ ncx = NotWritten
    /\ k = 1
    /\ warnings = << >>
    /\ archive = << >>
    /\ outputFile = "absent"
    /\ thrown = "none"
    /\ result = "pending"
    /\ xhtml = << >>
    /\ outputDir = "absent"

\* a conversion has been called and not yet taken a step
Fresh == pc = "start" /\ Blank

\* no conversion has been called
Idle ==
    /\ mode = "single"
    /\ inputs = << >>
    /\ config = NoConfig
    /\ pc = "idle"
    /\ Blank

NoBulk == [active |-> FALSE]

NoCalls == << >>

NoFn == [active |-> FALSE]

NoDl == [active |-> FALSE]

NoJobs == [active |-> FALSE]

NoSerial == [active |-> FALSE]

\* the callers and helpers studied on their own are not in play
Aside ==
    /\ bulk = NoBulk
    /\ calls = NoCalls
    /\ fn = NoFn
    /\ dl = NoDl
    /\ jobs = NoJobs
    /\ serial = NoSerial

Init ==
    /\ mode \in {"single", "chapters"}
    /\ \E n \in 0..MaxDocs, flat \in SeqsUpTo(ImageSrcs, MaxRefs) :
         \E kind \in [1..n -> FileKinds], owner \in Deals(Len(flat), n) :
           inputs = InputList(n, kind, flat, owner)
    /\ mode = "single" => Len(inputs) = 1
    /\ config \in Configs
    /\ Fresh
    /\ Aside

Settle(outcome) ==
    /\ pc' = "done"
    /\ result' = outcome

-----------------------------------------------------------------------------
(* convertMarkdownToEpub *)

\* lines 15-21: existsSync check, then parseMarkdown
convertMarkdownToEpub_parse ==
    /\ mode = "single" /\ pc = "start"
    /\ IF ~ existsSync(inputs[1]) \/ ~ readFile(inputs[1])
       THEN /\ Settle("rejected")
            /\ thrown' = "input"
            /\ UNCHANGED << parsedImages, currentBaseDir, uuidCount, images, html >>
       ELSE LET parsed == parseMarkdown(inputs[1], uuidCount)
            IN  /\ parsedImages' = parsed.images
                /\ currentBaseDir' = dirname(inputs[1].path)
                /\ uuidCount' = uuidCount + Len(parsed.images)
                /\ images' = parsed.images
                /\ html' = parsed.html
                /\ pc' = "prepare"
                /\ UNCHANGED << result, thrown >>
    /\ UNCHANGED << sideVars, xhtml, outputDir, mode, inputs, config, i, chapters, seenImages, metadata, tempDir,
                    opf, ncx, k, warnings, archive, outputFile >>

\* lines 23-50: output path, metadata, call of generateEpub (which draws tempDir)
convertMarkdownToEpub_prepare ==
    /\ mode = "single" /\ pc = "prepare"
    /\ metadata' = newMetadata(
           metadataTitle(config.title, extractTitle(inputs[1].lines),
                         << stemOf(inputs[1].path) >>),
           config, uuidCount)
    /\ tempDir' = [exists |-> FALSE, name |-> ".epub-temp-" \o uuidv4(uuidCount + 1),
                   files |-> {}]
    /\ uuidCount' = uuidCount + 2
    /\ outputDir' = "created"
    /\ pc' = "structure"
    /\ UNCHANGED << sideVars, xhtml, mode, inputs, config, i, parsedImages, currentBaseDir, chapters,
                    images, seenImages, html, opf, ncx, k, warnings, archive,
                    outputFile, thrown, result >>

-----------------------------------------------------------------------------
(* convertMarkdownFilesToChapters *)

\* lines 131-165: the empty-list check and one round of the parse loop
convertMarkdownFilesToChapters_parse ==
    /\ mode = "chapters" /\ pc = "start"
    /\ i < Len(inputs) \/ Len(inputs) = 0
    /\ IF Len(inputs) = 0 \/ ~ readFile(inputs[i + 1])
       THEN /\ Settle("rejected")
            /\ thrown' = "input"
            /\ UNCHANGED << i, parsedImages, currentBaseDir, uuidCount, chapters,
                            images, seenImages >>
       ELSE LET file   == inputs[i + 1]
                parsed == parseMarkdown(file, uuidCount)
                unique == collectUnique(images, seenImages, parsed.images)
            IN  /\ parsedImages' = parsed.images
                /\ currentBaseDir' = dirname(file.path)
                /\ uuidCount' = uuidCount + Len(parsed.images)
                /\ chapters' = Append(chapters, newChapter(i, file, parsed))
                /\ images' = unique.all
                /\ seenImages' = unique.seen
                /\ i' = i + 1
                /\ UNCHANGED << pc, result, thrown >>
    /\ UNCHANGED << sideVars, xhtml, outputDir, mode, inputs, config, html, metadata, tempDir, opf, ncx, k,
                    warnings, archive, outputFile >>

\* lines 167-193: book title, metadata, call of generateMultiChapterEpub
convertMarkdownFilesToChapters_prepare ==
    /\ mode = "chapters" /\ pc = "start"
    /\ Len(inputs) > 0 /\ i = Len(inputs)
    /\ metadata' = newMetadata(bookTitle(config.title, << stemOf(inputs[1].path) >>),
                               config, uuidCount)
    /\ tempDir' = [exists |-> FALSE, name |-> ".epub-temp-" \o uuidv4(uuidCount + 1),
                   files |-> {}]
    /\ uuidCount' = uuidCount + 2
    /\ outputDir' = "created"
    /\ pc' = "structure"
    /\ UNCHANGED << sideVars, xhtml, mode, inputs, config, i, parsedImages, currentBaseDir, chapters,
                    images, seenImages, html, opf, ncx, k, warnings, archive,
                    outputFile, thrown, result >>

-----------------------------------------------------------------------------
(* epub-generator.ts: staging.  A staged file is the tuple of its path     *)
(* segments below tempDir.                                                 *)

Prefix(seq, n) == SubSeq(seq, 1, n)

Range(seq) == { seq[n] : n \in 1..Len(seq) }

\* the writeFile calls of createEpubStructure, in order
singleFiles ==
    << <<"mimetype">>, <<"META-INF", "container.xml">>, <<"OEBPS", "content.opf">>,
       <<"OEBPS", "toc.ncx">>, <<"OEBPS", "content.xhtml">>,
       <<"OEBPS", "css", "style.css">> >>

\* the writeFile calls of createMultiChapterEpubStructure, in order
chapterFiles(chs) ==
    << <<"mimetype">>, <<"META-INF", "container.xml">>, <<"OEBPS", "content.opf">>,
       <<"OEBPS", "toc.ncx">> >>
    \o [ n \in 1..Len(chs) |-> <<"OEBPS", chs[n].id \o ".xhtml">> ]
    \o << <<"OEBPS", "css", "style.css">> >>

\* the state of tempDir after `done` of the directory-and-file writes went
\* through: 0 is a failed first mkdir, Len(files) + 1 is all of them
stagedAfter(files, done) ==
    [ exists |-> done > 0,
      name   |-> tempDir.name,
      files  |-> IF done = 0 THEN {} ELSE Range(Prefix(files, done - 1)) ]

\* lines 116-158: directories and generated files; any write may throw
createEpubStructure ==
    /\ mode = "single" /\ pc = "structure"
    /\ \E done \in 0..(Len(singleFiles) + 1) :
         /\ tempDir' = stagedAfter(singleFiles, done)
         /\ opf' = IF <<"OEBPS", "content.opf">> \in tempDir'.files
                   THEN getContentOpf(metadata, images) ELSE NotWritten
         /\ ncx' = IF <<"OEBPS", "toc.ncx">> \in tempDir'.files
                   THEN getTocNcx(metadata) ELSE NotWritten
         /\ xhtml' = IF <<"OEBPS", "content.xhtml">> \in tempDir'.files
                     THEN << getContentXhtml("content.xhtml", html, metadata.title) >>
                     ELSE << >>
         /\ pc' = IF done = Len(singleFiles) + 1 THEN "images" ELSE "catch"
         /\ thrown' = IF pc' = "catch" THEN "staging" ELSE "none"
    /\ UNCHANGED << sideVars, outputDir, mode, inputs, config, i, parsedImages, currentBaseDir, uuidCount,
                    chapters, images, seenImages, html, metadata, k, warnings,
                    archive, outputFile, result >>

\* lines 199-243: the same for a multi-chapter book
createMultiChapterEpubStructure ==
    /\ mode = "chapters" /\ pc = "structure"
    /\ \E done \in 0..(Len(chapterFiles(chapters)) + 1) :
         /\ tempDir' = stagedAfter(chapterFiles(chapters), done)
         /\ opf' = IF <<"OEBPS", "content.opf">> \in tempDir'.files
                   THEN getMultiChapterContentOpf(metadata, images, chapters)
                   ELSE NotWritten
         /\ ncx' = IF <<"OEBPS", "toc.ncx">> \in tempDir'.files
                   THEN getMultiChapterTocNcx(metadata, chapters) ELSE NotWritten
         /\ xhtml' = SelectSeq(chapterDocuments(chapters),
                               LAMBDA doc : <<"OEBPS", doc.name>> \in tempDir'.files)
         /\ pc' = IF done = Len(chapterFiles(chapters)) + 1 THEN "images" ELSE "catch"
         /\ thrown' = IF pc' = "catch" THEN "staging" ELSE "none"
    /\ UNCHANGED << sideVars, outputDir, mode, inputs, config, i, parsedImages, currentBaseDir, uuidCount,
                    chapters, images, seenImages, html, metadata, k, warnings,
                    archive, outputFile, result >>

\* a copy loop without its try/catch
onImageErrorRethrow == "throw"

\* what the catch block around one image does with the error: "warn" and go on
onImageError == "warn"

\* lines 161-176 (and the identical 246-261): copy or download one image
copyImage ==
    /\ pc = "images" /\ k <= Len(images)
    /\ LET image    == images[k]
           destPath == <<"OEBPS", "images", basename(image.src)>>
       IN  \E ok \in BOOLEAN :
             IF ok
             THEN /\ tempDir' = [tempDir EXCEPT !.files = @ \cup {destPath}]
                  /\ k' = k + 1
                  /\ UNCHANGED << warnings, pc, thrown >>
             ELSE IF onImageError = "warn"
                  THEN /\ warnings' = Append(warnings, basename(image.src))
                       /\ k' = k + 1
                       /\ UNCHANGED << tempDir, pc, thrown >>
                  ELSE /\ pc' = "catch"
                       /\ thrown' = "image"
                       /\ UNCHANGED << tempDir, warnings, k >>
    /\ UNCHANGED << sideVars, xhtml, outputDir, mode, inputs, config, i, parsedImages, currentBaseDir, uuidCount,
                    chapters, images, seenImages, html, metadata, opf, ncx, archive,
                    outputFile, result >>

\* lines 179-186 (and the identical 264-271): copy the cover, then return
copyCover ==
    /\ pc = "images" /\ k > Len(images)
    /\ IF metadata.cover # NoPath
       THEN \E ok \in BOOLEAN :
              IF ok
              THEN /\ tempDir' = [tempDir EXCEPT !.files =
                         @ \cup { <<"OEBPS", "images", "cover" \o extname(metadata.cover)>> }]
                   /\ UNCHANGED warnings
              ELSE /\ warnings' = Append(warnings, "cover")
                   /\ UNCHANGED tempDir
       ELSE UNCHANGED << tempDir, warnings >>
    /\ pc' = "archive"
    /\ UNCHANGED << sideVars, xhtml, outputDir, mode, inputs, config, i, parsedImages, currentBaseDir, uuidCount,
                    chapters, images, seenImages, html, metadata, opf, ncx, k,
                    archive, outputFile, thrown, result >>

-----------------------------------------------------------------------------
(* epub-generator.ts: packaging *)

RECURSIVE SeqOf(_)
SeqOf(S) ==
    IF S = {} THEN << >>
    ELSE LET x == CHOOSE y \in S : TRUE IN << x >> \o SeqOf(S \ {x})

\* one zip entry; archiver('zip', {zlib: {level: 9}}) deflates an entry unless
\* the entry data asks for store
zipEntry(name, store) ==
    [name |-> name, method |-> IF store THEN "stored" ELSE "deflated"]

\* archive.directory(path.join(tempDir, dir), dir)
directory(dir) ==
    LET found == SeqOf({ f \in tempDir.files : f[1] = dir })
    IN  [ n \in 1..Len(found) |-> zipEntry(found[n], FALSE) ]

\* lines 291-293: archive.append(stream, { name: 'mimetype' })
appendMimetype == zipEntry(<<"mimetype">>, FALSE)

\* lines 279-287: createWriteStream(outputPath); the only listener on `output`
\* is 'close', so an 'error' of the stream is an unhandled 'error' event
createEpubArchive_open ==
    /\ pc = "archive"
    /\ \E opened \in BOOLEAN :
         IF opened
         THEN /\ outputFile' = "partial"
              /\ pc' = "archiving"
         ELSE /\ pc' = "crashed"
              /\ UNCHANGED outputFile
    /\ UNCHANGED << sideVars, xhtml, outputDir, mode, inputs, config, i, parsedImages, currentBaseDir, uuidCount,
                    chapters, images, seenImages, html, metadata, tempDir, opf, ncx,
                    k, warnings, archive, thrown, result >>

\* lines 284-299: the entries are appended and the archive finalized
createEpubArchive_finalize ==
    /\ pc = "archiving"
    /\ \E outcome \in {"close", "archiveError", "writeError"} :
         CASE outcome = "close" ->
                /\ archive' = << appendMimetype >> \o directory("META-INF")
                                 \o directory("OEBPS")
                /\ outputFile' = "complete"
                /\ pc' = "cleanup"
                /\ UNCHANGED thrown
           [] outcome = "archiveError" ->
                /\ pc' = "catch"
                /\ thrown' = "archive"
                /\ UNCHANGED << archive, outputFile >>
           [] outcome = "writeError" ->
                /\ pc' = "crashed"
                /\ UNCHANGED << archive, outputFile, thrown >>
    /\ UNCHANGED << sideVars, xhtml, outputDir, mode, inputs, config, i, parsedImages, currentBaseDir, uuidCount,
                    chapters, images, seenImages, html, metadata, tempDir, opf, ncx,
                    k, warnings, result >>

\* lines 71 / 98: rm of tempDir after the archive closed; the conversion resolves
generateEpub_cleanup ==
    /\ pc = "cleanup"
    /\ tempDir' = [tempDir EXCEPT !.exists = FALSE, !.files = {}]
    /\ Settle("resolved")
    /\ UNCHANGED << sideVars, xhtml, outputDir, mode, inputs, config, i, parsedImages, currentBaseDir, uuidCount,
                    chapters, images, seenImages, html, metadata, opf, ncx, k,
                    warnings, archive, outputFile, thrown >>

\* lines 72-76 / 99-103: rm of tempDir in the catch block; the error is rethrown
generateEpub_catch ==
    /\ pc = "catch"
    /\ tempDir' = [tempDir EXCEPT !.exists = FALSE, !.files = {}]
    /\ Settle("rejected")
    /\ UNCHANGED << sideVars, xhtml, outputDir, mode, inputs, config, i, parsedImages, currentBaseDir, uuidCount,
                    chapters, images, seenImages, html, metadata, opf, ncx, k,
                    warnings, archive, outputFile, thrown >>

Next ==
    \/ convertMarkdownToEpub_parse
    \/ convertMarkdownToEpub_prepare
    \/ convertMarkdownFilesToChapters_parse
    \/ convertMarkdownFilesToChapters_prepare
    \/ createEpubStructure
    \/ createMultiChapterEpubStructure
    \/ copyImage
    \/ copyCover
    \/ createEpubArchive_open
    \/ createEpubArchive_finalize
    \/ generateEpub_cleanup
    \/ generateEpub_catch

Spec == Init /\ [][Next]_vars

-----------------------------------------------------------------------------
(* Properties of the archive and of the staging discipline *)

\* C1: in every finished archive the entry `mimetype` comes first and is
\* stored without compression, and every other entry is compressed.
C1_MimetypeFirstAndOnlyStored ==
    outputFile = "complete" =>
        /\ archive # << >>
        /\ archive[1].name = <<"mimetype">>
        /\ archive[1].method = "stored"
        /\ \A n \in 2..Len(archive) : archive[n].method = "deflated"

\* C2: every call of generateEpub / generateMultiChapterEpub settles, and the
\* staging directory of the call is gone when it has: a call that can take no
\* further step has resolved or rejected and left no staging directory.
C2_SettlesWithStagingRemoved ==
    pc \in {"done", "crashed"} =>
        /\ result \in {"resolved", "rejected"}
        /\ ~ tempDir.exists

\* C3: when packaging fails after createEpubArchive opened the output, no
\* partially written file is left at outputPath when the failure is reported.
C3_NoPartialOutputOnFailure ==
    result = "rejected" => outputFile # "partial"

-----------------------------------------------------------------------------
(* Properties of the package document and the navigation document *)

ManifestIds == { opf.manifest[n].id : n \in 1..Len(opf.manifest) }

ManifestHrefs == { opf.manifest[n].href : n \in 1..Len(opf.manifest) }

ManifestCount(href) ==
    Cardinality({ n \in 1..Len(opf.manifest) : opf.manifest[n].href = href })

\* the content documents staged under OEBPS, as hrefs relative to content.opf
StagedContentDocs ==
    { f[2] : f \in { g \in tempDir.files : Len(g) = 2 /\ g[1] = "OEBPS" } }
        \ { "content.opf", "toc.ncx" }

\* the manifest items that are neither navigation, stylesheet nor content document
AssetItems ==
    SelectSeq(opf.manifest,
              LAMBDA it : it.mediaType \notin { "application/x-dtbncx+xml", "text/css",
                                                "application/xhtml+xml" })

ImageItems == SelectSeq(AssetItems, LAMBDA it : it.id # "cover-image")

\* C4: every spine idref is the id of a manifest item, every navigation target
\* is the href of a manifest item, and each content document, the stylesheet
\* and the navigation file is listed in the manifest exactly once.
C4_ManifestSpineNavConsistent ==
    (opf.written /\ ncx.written) =>
        /\ \A n \in 1..Len(opf.spine) : opf.spine[n] \in ManifestIds
        /\ \A n \in 1..Len(ncx.navPoints) : ncx.navPoints[n].src \in ManifestHrefs
        /\ \A d \in StagedContentDocs \cup { "css/style.css", "toc.ncx" } :
               ManifestCount(d) = 1
        /\ pc \in {"images", "archive", "archiving", "cleanup"} =>
               Cardinality(StagedContentDocs) = Len(opf.spine)

\* a multi-chapter package with a cover and images, staged in full
C4_Witness ==
    /\ pc = "cleanup" /\ mode = "chapters"
    /\ Len(chapters) = 2 /\ Len(opf.spine) = 2 /\ Len(ncx.navPoints) = 2
    /\ metadata.cover # NoPath /\ Len(images) >= 1

\* C5: the ids of the manifest items of a package document are pairwise
\* distinct.
C5_ManifestIdsDistinct ==
    opf.written =>
        \A a, b \in 1..Len(opf.manifest) :
            a # b => opf.manifest[a].id # opf.manifest[b].id

\* a package document with chapters, a cover and two images
C5_Witness ==
    /\ opf.written /\ mode = "chapters" /\ Len(chapters) = 2
    /\ metadata.cover # NoPath /\ Len(ImageItems) = 2

\* the image references of the files, in input order, each with the directory
\* of the file that holds it
RECURSIVE WrittenRefs(_, _)
WrittenRefs(files, d) ==
    IF d > Len(files) THEN << >>
    ELSE [ m \in 1..Len(ImageLines(files[d].lines)) |->
             [ src |-> ImageLines(files[d].lines)[m].src, doc |-> d ] ]
         \o WrittenRefs(files, d + 1)

\* the positions of `refs` at which a base filename occurs for the first time
FirstPositions(refs) ==
    { n \in 1..Len(refs) :
        \A m \in 1..(n - 1) : basename(refs[m].src) # basename(refs[n].src) }

\* the n-th smallest element of a set of numbers
Nth(P, n) == CHOOSE p \in P : Cardinality({ q \in P : q < p }) = n - 1

\* C6: in chapter mode the aggregated asset list and the image items of the
\* manifest hold exactly one entry per distinct base filename: the first
\* occurrence in input order, in first-occurrence order.
C6_ChapterImagesDeduplicated ==
    (mode = "chapters" /\ opf.written) =>
        LET refs   == WrittenRefs(inputs, 1)
            firsts == FirstPositions(refs)
        IN  /\ Len(images) = Cardinality(firsts)
            /\ Len(ImageItems) = Cardinality(firsts)
            /\ \A n \in 1..Len(images) :
                 LET ref == refs[Nth(firsts, n)]
                 IN  /\ images[n].src = ref.src
                     /\ images[n].resolvedPath =
                            IF ref.src.remote THEN ref.src
                            ELSE LocalPath(inputs[ref.doc].path.dir \o ref.src.dir,
                                           ref.src.name)
                     /\ ImageItems[n].href = "images/" \o basename(ref.src)

\* two chapters referencing x.png from different directories: one entry, the
\* one of the first chapter
C6_Witness ==
    /\ mode = "chapters" /\ opf.written /\ Len(inputs) = 2
    /\ \E a \in 1..Len(ImageLines(inputs[1].lines)),
          b \in 1..Len(ImageLines(inputs[2].lines)) :
         /\ basename(ImageLines(inputs[1].lines)[a].src)
              = basename(ImageLines(inputs[2].lines)[b].src)
         /\ ImageLines(inputs[1].lines)[a].src # ImageLines(inputs[2].lines)[b].src
    /\ Len(WrittenRefs(inputs, 1)) = 2 /\ Len(images) = 1
    /\ images[1].src = ImageLines(inputs[1].lines)[1].src

\* C7: in single-document mode every asset has exactly one manifest item, also
\* when the document references the same base filename several times.
C7_SingleModeAssetsOnce ==
    (mode = "single" /\ opf.written) =>
        \A a, b \in 1..Len(AssetItems) :
            a # b => AssetItems[a].href # AssetItems[b].href

\* C8: a failed copy or fetch of a body image or of the cover never rejects
\* the conversion: the error is not the one thrown to the caller, the copy loop
\* goes on to every remaining image, and a conversion that met no other failure
\* resolves with the archive written.
C8_ImageFailureNotFatal ==
    /\ thrown # "image"
    /\ pc \in {"archive", "archiving", "cleanup"} => k = Len(images) + 1
    /\ (pc = "done" /\ thrown = "none") =>
           /\ result = "resolved"
           /\ outputFile = "complete"
           /\ k = Len(images) + 1

\* a conversion that resolved although a body image and the cover both failed
C8_Witness ==
    /\ result = "resolved" /\ outputFile = "complete"
    /\ Len(images) >= 2
    /\ Len(warnings) >= 2
    /\ warnings[1] = basename(images[1].src)
    /\ warnings[Len(warnings)] = "cover"

\* the image and cover files of the finished package, as hrefs
PackagedAssets ==
    { "images/" \o archive[n].name[3] :
        n \in { m \in 1..Len(archive) :
                  /\ Len(archive[m].name) = 3
                  /\ archive[m].name[1] = "OEBPS" /\ archive[m].name[2] = "images" } }

\* C9: the manifest of a produced package lists exactly the assets whose files
\* are in the package: no item for an image that could not be materialised.
C9_ManifestListsPackagedAssets ==
    outputFile = "complete" =>
        { AssetItems[n].href : n \in 1..Len(AssetItems) } = PackagedAssets

unescapeChunk(c) ==
    CASE c = "&amp;"  -> "&"
      [] c = "&lt;"   -> "<"
      [] c = "&gt;"   -> ">"
      [] c = "&quot;" -> "\""
      [] c = "&apos;" -> "'"
      [] OTHER        -> c

\* the text an XML reader gets from an escaped label
XmlText(label) == [ n \in 1..Len(label) |-> unescapeChunk(label[n]) ]

\* the text of the first top-level heading of a file, or its base filename
HeadingOrName(file) ==
    LET tops == { n \in 1..Len(file.lines) : file.lines[n].kind = "h1" }
    IN  IF tops = {} THEN << file.path.name.stem >>
        ELSE file.lines[Nth(tops, 1)].text

ChapterItems ==
    SelectSeq(opf.manifest, LAMBDA it : it.mediaType = "application/xhtml+xml")

\* C10: chapter mode gives the n-th input the id chapter-n and order n; the
\* chapter items of the manifest, the spine and the navigation each have one
\* entry per input, in input order, and each navigation label is the first
\* top-level heading of that input, or its base filename when it has none.
C10_ChaptersInInputOrder ==
    (mode = "chapters" /\ opf.written /\ ncx.written) =>
        /\ Len(chapters) = Len(inputs)
        /\ Len(ChapterItems) = Len(inputs)
        /\ Len(opf.spine) = Len(inputs)
        /\ Len(ncx.navPoints) = Len(inputs)
        /\ \A n \in 1..Len(inputs) :
             /\ chapters[n].id = "chapter-" \o ToString(n)
             /\ chapters[n].order = n
             /\ ChapterItems[n].id = "chapter-" \o ToString(n)
             /\ ChapterItems[n].href = "chapter-" \o ToString(n) \o ".xhtml"
             /\ opf.spine[n] = "chapter-" \o ToString(n)
             /\ ncx.navPoints[n].playOrder = n
             /\ ncx.navPoints[n].src = "chapter-" \o ToString(n) \o ".xhtml"
             /\ XmlText(ncx.navPoints[n].label) = HeadingOrName(inputs[n])

\* two chapters, the first without a top-level heading, the second with one
C10_Witness ==
    /\ mode = "chapters" /\ opf.written /\ ncx.written /\ Len(inputs) = 2
    /\ ncx.navPoints[1].label = << "two" >>
    /\ ncx.navPoints[2].label = << "Q", "&amp;", "A" >>

-----------------------------------------------------------------------------
(* Missing inputs; content types of the manifest *)

\* C18: when an input path names no file, whatever its position in the list,
\* the conversion never gets past parsing: it creates no output file, no
\* output directory and no staging directory, and when it has ended it has
\* rejected.
C18_MissingInputCreatesNothing ==
    (bulk = NoBulk /\ \E d \in 1..Len(inputs) : ~ inputs[d].exists) =>
        /\ pc \in {"start", "done"}
        /\ pc = "done" => result = "rejected"
        /\ outputFile = "absent"
        /\ outputDir = "absent"
        /\ ~ tempDir.exists /\ tempDir.files = {}

\* chapter mode, the second of two inputs missing after a first one with an
\* image has been parsed: rejected with nothing created
C18_WitnessMissingSecond ==
    /\ mode = "chapters" /\ Len(inputs) = 2
    /\ inputs[1].exists /\ ~ inputs[2].exists
    /\ Len(images) = 1 /\ Len(chapters) = 1
    /\ pc = "done" /\ result = "rejected" /\ thrown = "input"
    /\ outputDir = "absent" /\ outputFile = "absent" /\ ~ tempDir.exists

\* the content type that belongs to a file extension
ExtensionType(ext) ==
    CASE ext = ".png"  -> {"image/png"}
      [] ext = ".jpg"  -> {"image/jpeg"}
      [] ext = ".jpeg" -> {"image/jpeg"}
      [] ext = ".gif"  -> {"image/gif"}
      [] ext = ".svg"  -> {"image/svg+xml"}
      [] OTHER         -> {"image/jpeg", "image/png", "image/gif", "image/svg+xml"}

\* C20: every manifest item carries the content type of its file: the
\* navigation document, the stylesheet and the content documents their fixed
\* types, the n-th image item the type of the extension of the n-th image,
\* and the cover item the type of the extension of the cover file.
C20_ManifestTypesMatchFiles ==
    opf.written =>
        /\ \A n \in 1..Len(opf.manifest) :
             LET item == opf.manifest[n]
             IN  /\ item.id = "ncx" => item.mediaType = "application/x-dtbncx+xml"
                 /\ item.id = "style" => item.mediaType = "text/css"
                 /\ item.href \in StagedContentDocs => item.mediaType = "application/xhtml+xml"
                 /\ item.id = "cover-image" =>
                        item.mediaType \in ExtensionType(metadata.cover.name.ext)
        /\ Len(ImageItems) = Len(images)
        /\ \A n \in 1..Len(ImageItems) :
             ImageItems[n].mediaType \in ExtensionType(images[n].src.name.ext)

-----------------------------------------------------------------------------
(* Conversions with and without a title override *)

InitTitled ==
    /\ mode \in {"single", "chapters"}
    /\ \E n \in 0..MaxDocs, flat \in SeqsUpTo(ImageSrcs, MaxTitledRefs) :
         \E kind \in [1..n -> FileKinds], owner \in Deals(Len(flat), n) :
           inputs = InputList(n, kind, flat, owner)
    /\ mode = "single" => Len(inputs) = 1
    /\ config \in TitledConfigs
    /\ Fresh
    /\ Aside

SpecTitled == InitTitled /\ [][Next]_vars

\* the title the precedence override > first top-level heading > base filename
\* without extension gives a file
PrecedenceTitle(file) ==
    IF config.title # NoText THEN config.title ELSE HeadingOrName(file)

\* C11: in single-document mode the title of the package metadata, the label
\* of the navigation point (and the docTitle) and the title of the content
\* document are the title override when one is given, else the first
\* top-level heading of the document, else its base filename without extension.
C11_SingleTitlePrecedence ==
    mode = "single" =>
        /\ metadata # NoMetadata => metadata.title = PrecedenceTitle(inputs[1])
        /\ opf.written => XmlText(opf.title) = PrecedenceTitle(inputs[1])
        /\ ncx.written =>
              /\ XmlText(ncx.docTitle) = PrecedenceTitle(inputs[1])
              /\ Len(ncx.navPoints) = 1
              /\ XmlText(ncx.navPoints[1].label) = PrecedenceTitle(inputs[1])
        /\ \A n \in 1..Len(xhtml) : XmlText(xhtml[n].title) = PrecedenceTitle(inputs[1])

\* a headed document converted under a title override: the override wins
C11_WitnessOverride ==
    /\ mode = "single" /\ outputFile = "complete"
    /\ config.title = GivenTitle
    /\ extractTitle(inputs[1].lines) = << "Q", "&", "A" >>
    /\ opf.title = << "Tom ", "&amp;", " Jerry" >>
    /\ Len(xhtml) = 1 /\ xhtml[1].title = opf.title

\* C12: in chapter mode the book title of the package metadata and the
\* docTitle of the navigation document are the title override when one is
\* given, else the first top-level heading extracted from the first input,
\* else the base filename of the first input.
C12_ChapterBookTitlePrecedence ==
    (mode = "chapters" /\ opf.written /\ ncx.written) =>
        /\ XmlText(opf.title) = PrecedenceTitle(inputs[1])
        /\ XmlText(ncx.docTitle) = PrecedenceTitle(inputs[1])

\* the texts written as XML character data into the generated documents
EmittedTexts ==
    (IF opf.written
     THEN { opf.title, opf.creator, opf.publisher, opf.description, opf.rights }
     ELSE {})
    \cup (IF ncx.written
          THEN { ncx.docTitle } \cup { ncx.navPoints[n].label : n \in 1..Len(ncx.navPoints) }
          ELSE {})
    \cup { xhtml[n].title : n \in 1..Len(xhtml) }

\* C21: title, author, publisher, description, rights and every chapter
\* title are written entity-escaped wherever they appear in the package
\* document, the navigation document and the title element of a content
\* document: no raw <, >, " or ' and no & other than the start of one of the
\* five entities; and what is written reads back as the text given.
C21_TextsEntityEscaped ==
    /\ \A text \in EmittedTexts :
         \A n \in 1..Len(text) : text[n] \notin { "&", "<", ">", "\"", "'" }
    /\ opf.written =>
         /\ XmlText(opf.creator) = metadata.author
         /\ XmlText(opf.publisher) = metadata.publisher
         /\ XmlText(opf.description) = metadata.description
         /\ XmlText(opf.rights) = metadata.rights
         /\ XmlText(opf.title) = metadata.title

\* a chapter book made under a Config with every text given, one chapter
\* titled by its heading Q&A: all five entities are in the documents
C21_WitnessAllEntities ==
    /\ mode = "chapters" /\ config = FullConfig /\ outputFile = "complete"
    /\ opf.creator = << "Flann O", "&apos;", "Brien" >>
    /\ opf.publisher = << "&lt;", "Small Press", "&gt;" >>
    /\ opf.description[2] = "&quot;"
    /\ opf.rights[2] = "&amp;"
    /\ \E n \in 1..Len(xhtml) : xhtml[n].title = << "Q", "&amp;", "A" >>
    /\ \E n \in 1..Len(ncx.navPoints) : ncx.navPoints[n].label = << "Q", "&amp;", "A" >>

-----------------------------------------------------------------------------
(* converter.ts: bulk conversion.  convertMultipleMarkdownToEpub converts   *)
(* its inputs one after the other, each with convertMarkdownToEpub;         *)
(* convertDirectory calls it with the files findMarkdownFiles found.        *)

\* the files a bulk conversion may be pointed at, in the order of their paths
BulkFiles ==
    << HeadedFile(<< >>),
       MissingFile,
       NestedFile,
       PlainFile(<< LocalPath(<<"img">>, FileName("x", ".png")) >>) >>

\* lines 102-121: the markdown files of directory `book` (of its subtree when
\* recursive), sorted; `present` are the files that exist below it
findMarkdownFiles(present, recursive) ==
    SelectSeq(BulkFiles,
              LAMBDA f : /\ f \in present
                         /\ recursive \/ dirname(f.path) = <<"book">>)

\* lines 24-29: config?.outputDir || './output', basename without extension + '.epub'
finalOutputPath(file) == LocalPath(<<"output">>, FileName(stemOf(file.path), ".epub"))

InitBulk ==
    /\ \E entry \in {"convertMultipleMarkdownToEpub", "convertDirectory"} :
         IF entry = "convertDirectory"
         THEN \E present \in SUBSET { f \in Range(BulkFiles) : f.exists },
                 recursive \in BOOLEAN :
                bulk = [ active |-> TRUE, pc |-> "scan", present |-> present,
                         recursive |-> recursive, queue |-> << >>, b |-> 0,
                         results |-> << >>, books |-> << >>, errors |-> << >>,
                         outcome |-> "pending" ]
         ELSE \E queue \in SeqsUpTo(Range(BulkFiles), MaxBulk) :
                bulk = [ active |-> TRUE, pc |-> "loop", present |-> {},
                         recursive |-> FALSE, queue |-> queue, b |-> 0,
                         results |-> << >>, books |-> << >>, errors |-> << >>,
                         outcome |-> "pending" ]
    /\ mode = "single"
    /\ inputs = << >>
    /\ config \in IdentifiedConfigs
    /\ pc = "idle"
    /\ Blank
    /\ calls = NoCalls
    /\ fn = NoFn
    /\ dl = NoDl
    /\ jobs = NoJobs
    /\ serial = NoSerial

\* lines 89-96: scan the directory; no markdown file is an error
convertDirectory ==
    /\ bulk.active /\ bulk.pc = "scan"
    /\ LET markdownFiles == findMarkdownFiles(bulk.present, bulk.recursive)
       IN  IF Len(markdownFiles) = 0
           THEN bulk' = [bulk EXCEPT !.pc = "returned", !.outcome = "rejected"]
           ELSE bulk' = [bulk EXCEPT !.pc = "loop", !.queue = markdownFiles]
    /\ UNCHANGED << serial, jobs, calls, fn, dl, xhtml, outputDir, mode, inputs, config, pc, i,
                    parsedImages, currentBaseDir, uuidCount, chapters, images,
                    seenImages, html, metadata, tempDir, opf, ncx, k, warnings,
                    archive, outputFile, thrown, result >>

\* lines 65-70 and 78: the loop head; the next input is handed to
\* convertMarkdownToEpub, or the results are returned
convertMultipleMarkdownToEpub_next ==
    /\ bulk.active /\ bulk.pc = "loop"
    /\ IF bulk.b < Len(bulk.queue)
       THEN /\ bulk' = [bulk EXCEPT !.pc = "awaiting", !.b = @ + 1]
            /\ inputs' = << bulk.queue[bulk.b + 1] >>
            /\ pc' = "start"
            /\ i' = 0
            /\ chapters' = << >>
            /\ images' = << >>
            /\ seenImages' = {}
            /\ html' = << >>
            /\ metadata' = NoMetadata
            /\ tempDir' = NoDir
            /\ opf' = NotWritten
            /\ ncx' = NotWritten
            /\ k' = 1
            /\ archive' = << >>
            /\ outputFile' =
                 IF \E n \in 1..Len(bulk.books) :
                        bulk.books[n].path = finalOutputPath(bulk.queue[bulk.b + 1])
                 THEN "complete" ELSE "absent"
            /\ thrown' = "none"
            /\ result' = "pending"
            /\ xhtml' = << >>
       ELSE /\ bulk' = [bulk EXCEPT !.pc = "returned", !.outcome = "resolved"]
            /\ UNCHANGED << inputs, pc, i, chapters, images, seenImages, html,
                            metadata, tempDir, opf, ncx, k, archive, outputFile,
                            thrown, result, xhtml >>
    /\ UNCHANGED << serial, jobs, calls, fn, dl, outputDir, mode, config, parsedImages,
                    currentBaseDir, uuidCount, warnings >>

\* lines 67-75: the awaited conversion settled; its path is pushed, or its
\* error is logged and thrown on
convertMultipleMarkdownToEpub_settled ==
    /\ bulk.active /\ bulk.pc = "awaiting" /\ pc = "done"
    /\ IF result = "resolved"
       THEN bulk' = [bulk EXCEPT
                !.pc = "loop",
                !.results = Append(@, finalOutputPath(inputs[1])),
                !.books = Append(@, [ path       |-> finalOutputPath(inputs[1]),
                                      input      |-> bulk.b,
                                      identifier |-> opf.identifier ])]
       ELSE bulk' = [bulk EXCEPT !.pc = "returned", !.outcome = "rejected",
                                 !.errors = Append(@, bulk.b)]
    /\ UNCHANGED << serial, jobs, calls, fn, dl, xhtml, outputDir, mode, inputs, config, pc, i,
                    parsedImages, currentBaseDir, uuidCount, chapters, images,
                    seenImages, html, metadata, tempDir, opf, ncx, k, warnings,
                    archive, outputFile, thrown, result >>

NextBulk ==
    \/ convertDirectory
    \/ convertMultipleMarkdownToEpub_next
    \/ convertMultipleMarkdownToEpub_settled
    \/ convertMarkdownToEpub_parse
    \/ convertMarkdownToEpub_prepare
    \/ createEpubStructure
    \/ copyImage
    \/ copyCover
    \/ createEpubArchive_open
    \/ createEpubArchive_finalize
    \/ generateEpub_cleanup
    \/ generateEpub_catch

SpecBulk == InitBulk /\ [][NextBulk]_vars

\* C13: a package converted under an explicit identifier carries exactly that
\* identifier (in content.opf and as the uid of toc.ncx), on every conversion
\* of a run, the same input converted twice included; without one, no two
\* conversions of a run give their packages the same identifier.
C13_IdentifierGivenOrFresh ==
    bulk.active =>
        /\ config.identifier # "" =>
             /\ opf.written => opf.identifier = config.identifier
             /\ ncx.written => ncx.uid = config.identifier
             /\ \A n \in 1..Len(bulk.books) :
                  bulk.books[n].identifier = config.identifier
        /\ config.identifier = "" =>
             /\ \A m, n \in 1..Len(bulk.books) :
                  m # n => bulk.books[m].identifier # bulk.books[n].identifier
             /\ \A n \in 1..Len(bulk.books) :
                  opf.written /\ bulk.b > bulk.books[n].input =>
                      opf.identifier # bulk.books[n].identifier

\* the same input converted twice without an identifier: two packages, two
\* identifiers
C13_WitnessFresh ==
    /\ bulk.active /\ config.identifier = ""
    /\ Len(bulk.books) = 2
    /\ bulk.queue[1] = bulk.queue[2]
    /\ bulk.books[1].identifier # bulk.books[2].identifier

\* C26: a run of convertDirectory, recursive or not, gives the files it found
\* output paths that differ from one another, so the paths it returns hold no
\* duplicate and no package written earlier in the run is written over.
C26_DirectoryOutputsDistinct ==
    (bulk.active /\ bulk.present # {}) =>
        /\ \A a, b \in 1..Len(bulk.queue) :
             a # b => finalOutputPath(bulk.queue[a]) # finalOutputPath(bulk.queue[b])
        /\ \A a, b \in 1..Len(bulk.results) :
             a # b => bulk.results[a] # bulk.results[b]
        /\ (pc = "start" /\ bulk.pc = "awaiting") => outputFile = "absent"

\* C19: in a bulk conversion a failure of one document ends that document
\* only: when the bulk call has returned, every input has been handed to a
\* conversion, and each one has either produced its package or been reported
\* as failed.
C19_BulkFailureIsPerDocument ==
    (bulk.active /\ bulk.pc = "returned" /\ bulk.queue # << >>) =>
        /\ bulk.b = Len(bulk.queue)
        /\ Len(bulk.books) + Len(bulk.errors) = Len(bulk.queue)

-----------------------------------------------------------------------------
(* markdown-parser.ts: parseMarkdown called twice by one caller, the calls  *)
(* in flight together.  A call is suspended at `await readFile` and at      *)
(* `await marked.parse`; between two awaits it runs without interruption.   *)

Call(file) == [file |-> file, pc |-> "readFile", html |-> << >>, images |-> << >>]

InitCalls ==
    /\ \E refsA, refsB \in SeqsUpTo(ImageSrcs, MaxCallRefs), kindB \in {"plain", "missing"} :
         calls = << Call(HeadedFile(refsA)), Call(MarkdownFile(kindB, refsB)) >>
    /\ Idle
    /\ bulk = NoBulk
    /\ fn = NoFn
    /\ dl = NoDl
    /\ jobs = NoJobs
    /\ serial = NoSerial

\* lines 135-152: readFile settled; the globals are reset, marked renders the
\* text into them, and the call is suspended on the result of marked.parse
parseMarkdown_parse(c) ==
    /\ calls[c].pc = "readFile"
    /\ IF ~ readFile(calls[c].file)
       THEN /\ calls' = [calls EXCEPT ![c].pc = "rejected"]
            /\ UNCHANGED << parsedImages, currentBaseDir, uuidCount >>
       ELSE LET parsed == parseMarkdown(calls[c].file, uuidCount)
            IN  /\ parsedImages' = parsed.images
                /\ currentBaseDir' = dirname(calls[c].file.path)
                /\ uuidCount' = uuidCount + Len(parsed.images)
                /\ calls' = [calls EXCEPT ![c].pc = "marked.parse",
                                          ![c].html = parsed.html]
    /\ UNCHANGED << serial, jobs, bulk, fn, dl, xhtml, outputDir, mode, inputs, config, pc, i,
                    chapters, images, seenImages, html, metadata, tempDir, opf, ncx,
                    k, warnings, archive, outputFile, thrown, result >>

\* lines 153-159: the call resumes and returns { html, images: parsedImages, title }
parseMarkdown_return(c) ==
    /\ calls[c].pc = "marked.parse"
    /\ calls' = [calls EXCEPT ![c].pc = "returned", ![c].images = parsedImages]
    /\ UNCHANGED << serial, jobs, bulk, fn, dl, xhtml, outputDir, mode, inputs, config, pc, i,
                    parsedImages, currentBaseDir, uuidCount, chapters, images,
                    seenImages, html, metadata, tempDir, opf, ncx, k, warnings,
                    archive, outputFile, thrown, result >>

NextCalls ==
    \/ \E c \in 1..Len(calls) : parseMarkdown_parse(c)
    \/ \E c \in 1..Len(calls) : parseMarkdown_return(c)

SpecCalls == InitCalls /\ [][NextCalls]_vars

\* the image references written in a file, each resolved against the file's
\* own directory
OwnImages(file) ==
    [ n \in 1..Len(ImageLines(file.lines)) |->
        LET src == ImageLines(file.lines)[n].src
        IN  [ src          |-> src,
              resolvedPath |-> IF src.remote THEN src
                               ELSE LocalPath(file.path.dir \o src.dir, src.name) ] ]

\* C14: of two parseMarkdown calls in flight together, each returns exactly
\* the image references of its own file, in order, resolved against its own
\* file's directory, however their await points interleave.
C14_ConcurrentCallsKeepOwnImages ==
    \A c \in 1..Len(calls) :
        calls[c].pc = "returned" =>
            /\ Len(calls[c].images) = Len(OwnImages(calls[c].file))
            /\ \A n \in 1..Len(calls[c].images) :
                 /\ calls[c].images[n].src = OwnImages(calls[c].file)[n].src
                 /\ calls[c].images[n].resolvedPath
                        = OwnImages(calls[c].file)[n].resolvedPath

-----------------------------------------------------------------------------
(* markdown-parser.ts: the footnote extensions at work inside marked.  A    *)
(* line of markdown is a sequence of pieces: a marker [^id], a colon, or a  *)
(* run of other characters.  marked cuts the text into block tokens (an     *)
(* extension's tokenizer is tried first at every block start, a paragraph   *)
(* runs on to the next blank line), then renders them.                      *)

Marker(id) == [piece |-> "marker", id |-> id]

Colon == [piece |-> "colon", id |-> ""]

Chars == [piece |-> "chars", id |-> ""]

FootnoteLines ==
    { << >>,                                    \* a blank line
      << Chars >>,                              \* Plain words.
      << Chars, Marker("x"), Chars >>,          \* A claim[^x].
      << Marker("x"), Chars >>,                 \* [^x] opens the line.
      << Marker("x"), Colon, Chars >>,          \* [^x]: The note.
      << Marker("y"), Colon, Chars >> }         \* [^y]: Another note.

\* /^\[\^([^\]]+)\]:\s*(.+?)/ at the start of a line
isDefinition(line) ==
    Len(line) >= 3 /\ line[1].piece = "marker" /\ line[2].piece = "colon"

\* the last line of the footnote block that starts at line p: the text runs
\* on to (?=\n\n|\n\[\^|$), a blank line, a line opening with [^ or the end
RECURSIVE footnoteEnd(_, _)
footnoteEnd(src, p) ==
    IF p < Len(src) /\ src[p + 1] # << >> /\ src[p + 1][1].piece # "marker"
    THEN footnoteEnd(src, p + 1)
    ELSE p

\* the last line of the paragraph that starts at line p: the extension's
\* start() is anchored to the start of its argument and finds no later
\* definition, so nothing but a blank line ends the paragraph
RECURSIVE paragraphEnd(_, _)
paragraphEnd(src, p) ==
    IF p < Len(src) /\ src[p + 1] # << >>
    THEN paragraphEnd(src, p + 1)
    ELSE p

\* lines 41-54 and marked's Lexer.blockTokens: the block token at line p
blockToken(src, p) ==
    IF src[p] = << >>
    THEN [type |-> "space", from |-> p, to |-> p, id |-> ""]
    ELSE IF isDefinition(src[p])
         THEN [type |-> "footnote", from |-> p, to |-> footnoteEnd(src, p),
               id |-> src[p][1].id]
         ELSE [type |-> "paragraph", from |-> p, to |-> paragraphEnd(src, p), id |-> ""]

\* lines 74-83: /^\[\^([^\]]+)\](?!:)/ at piece q of a line
footnoteRef(line, q) ==
    /\ line[q].piece = "marker"
    /\ ~ (q < Len(line) /\ line[q + 1].piece = "colon")

\* lines 84-86: <sup><a href="#fn-id" id="ref-id">
footnoteRefRenderer(id) == [tag |-> "a", id |-> "ref-" \o id, href |-> "#fn-" \o id]

\* lines 55-59: <div class="footnote" id="fn-id">, the text as it is
footnoteRenderer(id) == [tag |-> "div", id |-> "fn-" \o id, href |-> ""]

RECURSIVE SeqConcat(_)
SeqConcat(ss) == IF ss = << >> THEN << >> ELSE Head(ss) \o SeqConcat(Tail(ss))

\* the inline tokens of one line of a paragraph, rendered
renderInline(line) ==
    SeqConcat([ q \in 1..Len(line) |->
                  IF footnoteRef(line, q) THEN << footnoteRefRenderer(line[q].id) >>
                  ELSE << >> ])

\* marked's Parser.parse on one block token
renderToken(src, token) ==
    CASE token.type = "footnote"  -> << footnoteRenderer(token.id) >>
      [] token.type = "paragraph" ->
            SeqConcat([ n \in 1..(token.to - token.from + 1) |->
                          renderInline(src[token.from + n - 1]) ])
      [] OTHER -> << >>

InitFootnotes ==
    /\ \E src \in SeqsUpTo(FootnoteLines, MaxLines) :
         fn = [active |-> TRUE, pc |-> "lexer", src |-> src, p |-> 1,
               tokens |-> << >>, out |-> << >>]
    /\ Idle
    /\ bulk = NoBulk
    /\ calls = NoCalls
    /\ dl = NoDl
    /\ jobs = NoJobs
    /\ serial = NoSerial

\* one round of Lexer.blockTokens
marked_blockTokens ==
    /\ fn.active /\ fn.pc = "lexer" /\ fn.p <= Len(fn.src)
    /\ LET token == blockToken(fn.src, fn.p)
       IN  fn' = [fn EXCEPT !.tokens = Append(@, token), !.p = token.to + 1]
    /\ UNCHANGED << serial, jobs, bulk, calls, dl, xhtml, outputDir, mode, inputs, config, pc, i,
                    parsedImages, currentBaseDir, uuidCount, chapters, images,
                    seenImages, html, metadata, tempDir, opf, ncx, k, warnings,
                    archive, outputFile, thrown, result >>

\* Parser.parse: the tokens rendered in order
marked_parser ==
    /\ fn.active /\ fn.pc = "lexer" /\ fn.p > Len(fn.src)
    /\ fn' = [fn EXCEPT !.pc = "rendered",
                        !.out = SeqConcat([ n \in 1..Len(fn.tokens) |->
                                              renderToken(fn.src, fn.tokens[n]) ])]
    /\ UNCHANGED << serial, jobs, bulk, calls, dl, xhtml, outputDir, mode, inputs, config, pc, i,
                    parsedImages, currentBaseDir, uuidCount, chapters, images,
                    seenImages, html, metadata, tempDir, opf, ncx, k, warnings,
                    archive, outputFile, thrown, result >>

NextFootnotes ==
    \/ marked_blockTokens
    \/ marked_parser

SpecFootnotes == InitFootnotes /\ [][NextFootnotes]_vars

\* the lines of src that define footnote id
DefinitionsOf(src, id) ==
    { n \in 1..Len(src) : /\ Len(src[n]) >= 2
                          /\ src[n][1] = Marker(id) /\ src[n][2] = Colon }

\* the places of src that refer to footnote id: a marker not opening a
\* definition
ReferencesTo(src, id) ==
    { << n, q >> \in (1..Len(src)) \X (1..3) :
        /\ q <= Len(src[n]) /\ src[n][q] = Marker(id)
        /\ ~ (q = 1 /\ n \in DefinitionsOf(src, id)) }

\* C15: a document with one reference [^x] and one definition [^x]: text is
\* rendered with exactly one element of id fn-x and exactly one link to #fn-x
\* (the definition line gives no second link).
C15_OneAnchorOneLink ==
    ( /\ fn.active /\ fn.pc = "rendered"
      /\ Cardinality(DefinitionsOf(fn.src, "x")) = 1
      /\ Cardinality(ReferencesTo(fn.src, "x")) = 1 ) =>
        /\ Cardinality({ n \in 1..Len(fn.out) : fn.out[n].id = "fn-x" }) = 1
        /\ Cardinality({ n \in 1..Len(fn.out) : fn.out[n].href = "#fn-x" }) = 1

-----------------------------------------------------------------------------
(* epub-generator.ts: downloadImage.  Each URL has a server that behaves in *)
(* one way; a call walks from URL to URL along the redirects it follows.    *)

Urls == {"https://host/y.jpg", "https://host/img/y.jpg"}

NoLocation == [given |-> FALSE, relative |-> FALSE, target |-> ""]

\* a Location header that names `target`, as an absolute URL or relative to
\* the URL that was asked
Location(relative, target) == [given |-> TRUE, relative |-> relative, target |-> target]

Response(code, location, body) ==
    [kind |-> "response", code |-> code, location |-> location, body |-> body]

\* what the server behind a URL may do: answer (the body arriving whole, the
\* connection closing or being reset half way, the body stalling, or the file
\* write failing), refuse the connection, or never answer
Behaviours ==
    { Response(200, NoLocation, body) :
        body \in {"complete", "closed", "reset", "stalled", "writeError"} }
    \cup { Response(code, NoLocation, "none") : code \in {204, 301, 302, 404} }
    \cup { Response(code, Location(rel, u), "none") :
             code \in {301, 302}, rel \in BOOLEAN, u \in Urls }
    \cup { Response(307, Location(FALSE, u), "none") : u \in Urls }
    \cup { [kind |-> "networkError", code |-> 0, location |-> NoLocation, body |-> "none"],
           [kind |-> "silent", code |-> 0, location |-> NoLocation, body |-> "none"] }

InitDownload ==
    /\ \E servers \in [Urls -> Behaviours], url \in Urls :
         dl = [ active |-> TRUE, servers |-> servers, requested |-> url,
                url |-> url, pc |-> "request",
                file |-> [state |-> "absent", from |-> ""],
                settled |-> "pending", settleCalls |-> 0 ]
    /\ Idle
    /\ bulk = NoBulk
    /\ calls = NoCalls
    /\ fn = NoFn
    /\ jobs = NoJobs
    /\ serial = NoSerial

\* resolve() or reject() of the promise of the outermost call: the first call
\* settles it
settle(d, outcome) ==
    [d EXCEPT !.settled = IF @ = "pending" THEN outcome ELSE @,
              !.settleCalls = @ + 1,
              !.pc = "done"]

\* lines 23-40: the response callback
downloadImage_response ==
    /\ dl.active /\ dl.pc = "request"
    /\ dl.servers[dl.url].kind = "response"
    /\ LET response == dl.servers[dl.url]
       IN  IF response.code \in {301, 302} /\ response.location.given
           THEN \* downloadImage(response.headers.location, destPath): the header
                \* is passed as it is; a relative one is no URL, get throws and
                \* the inner promise rejects
                IF response.location.relative
                THEN dl' = settle(dl, "rejected")
                ELSE dl' = [dl EXCEPT !.url = response.location.target]
           ELSE IF response.code # 200
                THEN dl' = settle(dl, "rejected")
                ELSE dl' = [dl EXCEPT !.pc = "piping",
                                      !.file = [state |-> "partial", from |-> dl.url]]
    /\ UNCHANGED << serial, jobs, bulk, calls, fn, xhtml, outputDir, mode, inputs, config, pc, i,
                    parsedImages, currentBaseDir, uuidCount, chapters, images,
                    seenImages, html, metadata, tempDir, opf, ncx, k, warnings,
                    archive, outputFile, thrown, result >>

\* line 49: 'error' of the request, before a response or when the socket is
\* reset under the body
downloadImage_requestError ==
    /\ dl.active
    /\ \/ dl.pc = "request" /\ dl.servers[dl.url].kind = "networkError"
       \/ dl.pc = "piping" /\ dl.servers[dl.url].body = "reset"
    /\ dl' = settle(dl, "rejected")
    /\ UNCHANGED << serial, jobs, bulk, calls, fn, xhtml, outputDir, mode, inputs, config, pc, i,
                    parsedImages, currentBaseDir, uuidCount, chapters, images,
                    seenImages, html, metadata, tempDir, opf, ncx, k, warnings,
                    archive, outputFile, thrown, result >>

\* lines 42-45: 'finish' of the file stream
downloadImage_finish ==
    /\ dl.active /\ dl.pc = "piping"
    /\ dl.servers[dl.url].body = "complete"
    /\ dl' = settle([dl EXCEPT !.file.state = "complete"], "resolved")
    /\ UNCHANGED << serial, jobs, bulk, calls, fn, xhtml, outputDir, mode, inputs, config, pc, i,
                    parsedImages, currentBaseDir, uuidCount, chapters, images,
                    seenImages, html, metadata, tempDir, opf, ncx, k, warnings,
                    archive, outputFile, thrown, result >>

\* lines 46-48: 'error' of the file stream; the file is unlinked
downloadImage_fileError ==
    /\ dl.active /\ dl.pc = "piping"
    /\ dl.servers[dl.url].body = "writeError"
    /\ dl' = settle([dl EXCEPT !.file = [state |-> "absent", from |-> ""]], "rejected")
    /\ UNCHANGED << serial, jobs, bulk, calls, fn, xhtml, outputDir, mode, inputs, config, pc, i,
                    parsedImages, currentBaseDir, uuidCount, chapters, images,
                    seenImages, html, metadata, tempDir, opf, ncx, k, warnings,
                    archive, outputFile, thrown, result >>

NextDownload ==
    \/ downloadImage_response
    \/ downloadImage_requestError
    \/ downloadImage_finish
    \/ downloadImage_fileError

\* every event that has arrived is handled in the end
SpecDownload == InitDownload /\ [][NextDownload]_vars /\ WF_vars(NextDownload)

\* the URL a client ends at when it follows, from url, every 301/302 that
\* carries a Location (a relative one resolved against the URL asked), or ""
\* when it is still being redirected after `fuel` hops
RECURSIVE FinalUrl(_, _, _)
FinalUrl(servers, url, fuel) ==
    LET r == servers[url]
    IN  IF r.kind = "response" /\ r.code \in {301, 302} /\ r.location.given
        THEN IF fuel = 0 THEN ""
             ELSE FinalUrl(servers, r.location.target, fuel - 1)
        ELSE url

\* C16: a 301/302 redirect carrying a Location is followed and the body of
\* the final response lands at the destination path first asked for; the
\* call rejects when the walk ends in a network error or in a response whose
\* status is not 2xx (a redirect status without Location included); and the
\* promise is settled once.
C16_RedirectsFollowedErrorsRejected ==
    dl.active =>
        LET final == FinalUrl(dl.servers, dl.requested, Cardinality(Urls))
            last  == dl.servers[final]
        IN  /\ dl.settleCalls <= 1
            /\ dl.pc = "done" => dl.settleCalls = 1
            /\ dl.settled = "resolved" =>
                 /\ final # ""
                 /\ last.kind = "response" /\ last.code \in 200..299
                 /\ dl.file = [state |-> "complete", from |-> final]
            /\ (dl.pc = "done" /\ final # "") =>
                 /\ (last.kind = "networkError") => dl.settled = "rejected"
                 /\ (last.kind = "response" /\ last.code \notin 200..299)
                        => dl.settled = "rejected"
                 /\ (last.kind = "response" /\ last.code = 200 /\ last.body = "complete")
                        => dl.settled = "resolved"

\* C17: every call of downloadImage is settled in the end.
C17_FetchEventuallySettles ==
    dl.active => <>(dl.settled # "pending")

-----------------------------------------------------------------------------
(* epub-generator.ts: two calls of generateEpub in one process, their       *)
(* outputs in the same directory.  The file system below that directory is  *)
(* a set of [dir, file] entries; a call is suspended at each await.         *)

\* lines 61 / 88: `.epub-temp-${uuidv4()}` next to the output
tempDirName(n) == ".epub-temp-" \o uuidv4(n)

\* what createEpubStructure writes for a book with `n` images, in order
jobFiles(n) ==
    singleFiles \o [ m \in 1..n |-> <<"OEBPS", "images", "image" \o ToString(m)>> ]

\* fs.promises.rm(dir, { recursive: true, force: true })
rm(disk, dir) == { e \in disk : e.dir # dir }

Job(output, n) ==
    [ pc |-> "called", output |-> output, images |-> n, tempDir |-> "",
      staged |-> {}, packaged |-> {}, result |-> "pending" ]

InitJobs ==
    /\ \E n1, n2 \in 0..1 :
         jobs = [ active |-> TRUE, process |-> "running", uuids |-> 0, disk |-> {},
                  job |-> << Job("one.epub", n1), Job("two.epub", n2) >> ]
    /\ Idle
    /\ bulk = NoBulk
    /\ calls = NoCalls
    /\ fn = NoFn
    /\ dl = NoDl
    /\ serial = NoSerial

\* line 61: the call draws its staging directory
generateEpub_tempDir(j) ==
    /\ jobs.active /\ jobs.process = "running"
    /\ jobs.job[j].pc = "called"
    /\ jobs' = [jobs EXCEPT !.uuids = @ + 1,
                            !.job[j].tempDir = tempDirName(jobs.uuids),
                            !.job[j].pc = "structure"]
    /\ UNCHANGED << serial, bulk, calls, fn, dl, xhtml, outputDir, mode, inputs, config, pc,
                    i, parsedImages, currentBaseDir, uuidCount, chapters, images,
                    seenImages, html, metadata, tempDir, opf, ncx, k, warnings,
                    archive, outputFile, thrown, result >>

\* line 65: createEpubStructure; `done` of its writes go through
generateEpub_structure(j) ==
    /\ jobs.active /\ jobs.process = "running"
    /\ jobs.job[j].pc = "structure"
    /\ LET files == jobFiles(jobs.job[j].images)
       IN  \E done \in 0..Len(files) :
             LET written == Range(Prefix(files, done))
             IN  jobs' = [jobs EXCEPT
                     !.disk = @ \cup { [dir |-> jobs.job[j].tempDir, file |-> f] :
                                         f \in written },
                     !.job[j].staged = written,
                     !.job[j].pc = IF done = Len(files) THEN "archive" ELSE "catch"]
    /\ UNCHANGED << serial, bulk, calls, fn, dl, xhtml, outputDir, mode, inputs, config, pc,
                    i, parsedImages, currentBaseDir, uuidCount, chapters, images,
                    seenImages, html, metadata, tempDir, opf, ncx, k, warnings,
                    archive, outputFile, thrown, result >>

\* line 68: createEpubArchive packages what is in the staging directory; an
\* 'error' of the output stream has no listener and ends the process
generateEpub_archive(j) ==
    /\ jobs.active /\ jobs.process = "running"
    /\ jobs.job[j].pc = "archive"
    /\ \E outcome \in {"close", "archiveError", "writeError"} :
         CASE outcome = "close" ->
                jobs' = [jobs EXCEPT
                    !.job[j].packaged =
                        { e.file : e \in { d \in jobs.disk : d.dir = jobs.job[j].tempDir } },
                    !.job[j].pc = "cleanup"]
           [] outcome = "archiveError" ->
                jobs' = [jobs EXCEPT !.job[j].pc = "catch"]
           [] outcome = "writeError" ->
                jobs' = [jobs EXCEPT !.job[j].pc = "crashed", !.process = "crashed"]
    /\ UNCHANGED << serial, bulk, calls, fn, dl, xhtml, outputDir, mode, inputs, config, pc,
                    i, parsedImages, currentBaseDir, uuidCount, chapters, images,
                    seenImages, html, metadata, tempDir, opf, ncx, k, warnings,
                    archive, outputFile, thrown, result >>

\* lines 71 and 74-75: rm of the staging directory, on success and in the
\* catch block
generateEpub_rm(j) ==
    /\ jobs.active /\ jobs.process = "running"
    /\ jobs.job[j].pc \in {"cleanup", "catch"}
    /\ jobs' = [jobs EXCEPT
           !.disk = rm(@, jobs.job[j].tempDir),
           !.job[j].result = IF jobs.job[j].pc = "cleanup" THEN "resolved" ELSE "rejected",
           !.job[j].pc = "done"]
    /\ UNCHANGED << serial, bulk, calls, fn, dl, xhtml, outputDir, mode, inputs, config, pc,
                    i, parsedImages, currentBaseDir, uuidCount, chapters, images,
                    seenImages, html, metadata, tempDir, opf, ncx, k, warnings,
                    archive, outputFile, thrown, result >>

NextJobs ==
    \/ \E j \in 1..2 : generateEpub_tempDir(j)
    \/ \E j \in 1..2 : generateEpub_structure(j)
    \/ \E j \in 1..2 : generateEpub_archive(j)
    \/ \E j \in 1..2 : generateEpub_rm(j)

SpecJobs == InitJobs /\ [][NextJobs]_vars

\* the files on disk below the staging directory of call j
OnDisk(j) == { e.file : e \in { d \in jobs.disk : d.dir = jobs.job[j].tempDir } }

\* C22 (staging): two concurrent conversions have different staging
\* directories, and from its staging to its own cleanup a call finds in its
\* directory exactly the files it wrote, whatever the other call does.
C22_StagingKeptApart ==
    jobs.active =>
        /\ (jobs.job[1].tempDir # "" /\ jobs.job[2].tempDir # "")
               => jobs.job[1].tempDir # jobs.job[2].tempDir
        /\ \A j \in 1..2 :
             /\ jobs.job[j].pc \in {"archive", "cleanup", "catch", "crashed"}
                    => OnDisk(j) = jobs.job[j].staged
             /\ jobs.job[j].result = "resolved"
                    => jobs.job[j].packaged = Range(jobFiles(jobs.job[j].images))

\* C22: two concurrent conversions keep their staging apart (as above), and
\* a failure in one leaves the other able to finish: a call that has not
\* ended can always take its next step.
C22_ConcurrentConversionsIndependent ==
    jobs.active =>
        /\ C22_StagingKeptApart
        /\ \A j \in 1..2 :
             jobs.job[j].pc \notin {"done", "crashed"} => jobs.process = "running"

-----------------------------------------------------------------------------
(* One name for an image: tag, manifest item and staged file *)

\* the content documents are all written: document d was made from inputs[d]
DocumentsWritten ==
    /\ Len(inputs) > 0
    /\ Len(xhtml) = (IF mode = "single" THEN 1 ELSE Len(inputs))

\* the image files staged so far, by name
StagedImageNames ==
    { f[3] : f \in { g \in tempDir.files :
                       Len(g) = 3 /\ g[1] = "OEBPS" /\ g[2] = "images" } }

\* a src attribute, read relative to a content document in OEBPS, names a
\* staged file
Resolves(src) == \E name \in StagedImageNames : src = "images/" \o name

\* some copy or download of an asset of this base name went through
Materialised(name) ==
    Cardinality({ n \in 1..Len(images) : n < k /\ basename(images[n].src) = name })
      > Cardinality({ w \in 1..Len(warnings) : warnings[w] = name })

\* C23: once the content documents are written, the tag of every image
\* reference of every document carries the base name of the written
\* reference; the asset list holds an asset of that base name (also for a
\* later duplicate that deduplication dropped), whose manifest href is the
\* src of the tag; whenever a copy of that asset was staged the tag resolves
\* to a staged file for as long as the staging directory stands; and every
\* staged body image is named by some tag.
C23_TagManifestAndFileShareName ==
    DocumentsWritten =>
        /\ \A d \in 1..Len(xhtml) :
             LET refs == ImageLines(inputs[d].lines)
             IN  /\ Len(xhtml[d].body) = Len(refs)
                 /\ \A m \in 1..Len(refs) :
                      LET name == basename(refs[m].src)
                          src  == xhtml[d].body[m]
                      IN  /\ src = "images/" \o name
                          /\ \E n \in 1..Len(images) : basename(images[n].src) = name
                          /\ \A n \in 1..Len(images) :
                               basename(images[n].src) = name =>
                                   (opf.written => ImageItems[n].href = src)
                          /\ (tempDir.exists /\ Materialised(name)) => Resolves(src)
        /\ \A name \in StagedImageNames :
             name # "cover" \o extname(metadata.cover) =>
                 \E d \in 1..Len(xhtml) : \E m \in 1..Len(xhtml[d].body) :
                     xhtml[d].body[m] = "images/" \o name

\* a chapter book whose second chapter repeats the base name of an image of
\* the first from another directory: the duplicate is dropped, the one asset
\* is staged, and the tags of both chapters resolve to it
C23_WitnessDroppedDuplicateResolves ==
    /\ mode = "chapters" /\ DocumentsWritten /\ Len(inputs) = 2 /\ pc = "archive"
    /\ Len(xhtml[1].body) = 1 /\ Len(xhtml[2].body) = 1
    /\ ImageLines(inputs[1].lines)[1].src # ImageLines(inputs[2].lines)[1].src
    /\ Len(images) = 1 /\ warnings = << >>
    /\ Resolves(xhtml[1].body[1]) /\ Resolves(xhtml[2].body[1])

-----------------------------------------------------------------------------
(* Conversions of documents with an image that is itself called cover *)

\* image references as written: an ordinary one and one whose base name is
\* `cover` with the extension of CoverPath
CoverSrcs ==
    { LocalPath(<<"img">>, FileName("x", ".png")),
      LocalPath(<<"img">>, FileName("cover", ".png")) }

InitCover ==
    /\ mode \in {"single", "chapters"}
    /\ \E n \in 0..MaxDocs, flat \in SeqsUpTo(CoverSrcs, MaxTitledRefs) :
         \E kind \in [1..n -> FileKinds], owner \in Deals(Len(flat), n) :
           inputs = InputList(n, kind, flat, owner)
    /\ mode = "single" => Len(inputs) = 1
    /\ config \in Configs
    /\ Fresh
    /\ Aside

SpecCover == InitCover /\ [][Next]_vars

\* the path below tempDir at which the copy loop stages a body image
imageDest(image) == << "OEBPS", "images", basename(image.src) >>

\* the path below tempDir at which the cover is staged
coverDest == << "OEBPS", "images", "cover" \o extname(metadata.cover) >>

\* C24: with a cover given, the path the cover is staged at is the staging
\* path of no body image (so the copy of the cover overwrites none), and
\* the manifest holds no image item with the href of the cover item.
C24_CoverApartFromBodyImages ==
    (metadata.cover # NoPath /\ pc \notin {"start", "prepare"}) =>
        /\ \A n \in 1..Len(images) : imageDest(images[n]) # coverDest
        /\ opf.written =>
             \A a, b \in 1..Len(opf.manifest) :
                 (opf.manifest[a].id = "cover-image" /\ opf.manifest[b].id # "cover-image")
                     => opf.manifest[a].href # opf.manifest[b].href

-----------------------------------------------------------------------------
(* markdown-parser.ts: parseMarkdown called again and again by one caller,  *)
(* each call made after the one before has settled.  An array is an object: *)
(* `arrays` maps the identity of each array made so far to its elements,    *)
(* and the module variable and every returned `images` hold an identity.    *)

\* a reset that empties the array the module variable holds
resetInPlace(arrays, held) ==
    [ arrays |-> [arrays EXCEPT ![held] = << >>], held |-> held ]

\* line 139: `parsedImages = []` makes a new array and lets the variable hold it
reset(arrays, held) ==
    [ arrays |-> Append(arrays, << >>), held |-> Len(arrays) + 1 ]

InitSerial ==
    /\ \E refsA, refsB \in SeqsUpTo(ImageSrcs, MaxCallRefs), kindB \in {"plain", "missing"} :
         serial = [ active |-> TRUE,
                    files  |-> << HeadedFile(refsA), MarkdownFile(kindB, refsB),
                                  HeadedFile(refsA) >>,
                    arrays |-> << << >> >>,      \* line 9: let parsedImages = []
                    parsedImages |-> 1,
                    currentBaseDir |-> << >>,
                    uuids  |-> 0,
                    pc     |-> "idle",
                    settled |-> << >> ]
    /\ Idle
    /\ bulk = NoBulk
    /\ calls = NoCalls
    /\ fn = NoFn
    /\ dl = NoDl
    /\ jobs = NoJobs

\* the caller makes its next call: line 135, suspended on readFile
parseMarkdown_call ==
    /\ serial.active /\ serial.pc = "idle"
    /\ Len(serial.settled) < Len(serial.files)
    /\ serial' = [serial EXCEPT !.pc = "readFile"]
    /\ UNCHANGED << jobs, bulk, calls, fn, dl, xhtml, outputDir, mode, inputs, config,
                    pc, i, parsedImages, currentBaseDir, uuidCount, chapters, images,
                    seenImages, html, metadata, tempDir, opf, ncx, k, warnings,
                    archive, outputFile, thrown, result >>

\* lines 135-152: readFile settles; the reset, and marked pushing the
\* references of the text onto the array the module variable holds
parseMarkdown_render ==
    /\ serial.active /\ serial.pc = "readFile"
    /\ LET file == serial.files[Len(serial.settled) + 1]
       IN  IF ~ readFile(file)
           THEN serial' = [serial EXCEPT
                    !.pc = "idle",
                    !.settled = Append(@, [ state |-> "rejected", images |-> 0,
                                            returned |-> << >> ])]
           ELSE LET fresh  == reset(serial.arrays, serial.parsedImages)
                    parsed == parseMarkdown(file, serial.uuids)
                IN  serial' = [serial EXCEPT
                        !.arrays = [fresh.arrays EXCEPT ![fresh.held] = @ \o parsed.images],
                        !.parsedImages = fresh.held,
                        !.currentBaseDir = dirname(file.path),
                        !.uuids = @ + Len(parsed.images),
                        !.pc = "marked.parse"]
    /\ UNCHANGED << jobs, bulk, calls, fn, dl, xhtml, outputDir, mode, inputs, config,
                    pc, i, parsedImages, currentBaseDir, uuidCount, chapters, images,
                    seenImages, html, metadata, tempDir, opf, ncx, k, warnings,
                    archive, outputFile, thrown, result >>

\* lines 153-159: the call resumes and returns the array the module variable
\* holds; `returned` keeps the elements it had at that moment
parseMarkdown_resume ==
    /\ serial.active /\ serial.pc = "marked.parse"
    /\ serial' = [serial EXCEPT
           !.pc = "idle",
           !.settled = Append(@, [ state |-> "resolved", images |-> serial.parsedImages,
                                   returned |-> serial.arrays[serial.parsedImages] ])]
    /\ UNCHANGED << jobs, bulk, calls, fn, dl, xhtml, outputDir, mode, inputs, config,
                    pc, i, parsedImages, currentBaseDir, uuidCount, chapters, images,
                    seenImages, html, metadata, tempDir, opf, ncx, k, warnings,
                    archive, outputFile, thrown, result >>

NextSerial ==
    \/ parseMarkdown_call
    \/ parseMarkdown_render
    \/ parseMarkdown_resume

SpecSerial == InitSerial /\ [][NextSerial]_vars

\* the elements, now, of the images list a settled call returned
ImagesOf(c) == serial.arrays[serial.settled[c].images]

\* C25: of calls made one after the other, the images list an earlier call
\* returned still has the elements it was returned with, whatever calls came
\* later, and the list of a later call holds the references of its own file
\* only, none of them an element of an earlier call's list.
C25_SerialCallsKeepTheirLists ==
    serial.active =>
        \A c \in 1..Len(serial.settled) :
            serial.settled[c].state = "resolved" =>
                /\ ImagesOf(c) = serial.settled[c].returned
                /\ Len(ImagesOf(c)) = Len(OwnImages(serial.files[c]))
                /\ \A n \in 1..Len(ImagesOf(c)) :
                     /\ ImagesOf(c)[n].src = OwnImages(serial.files[c])[n].src
                     /\ ImagesOf(c)[n].resolvedPath
                            = OwnImages(serial.files[c])[n].resolvedPath
                /\ \A b \in 1..(c - 1) :
                     serial.settled[b].state = "resolved" =>
                         Range(ImagesOf(b)) \cap Range(ImagesOf(c)) = {}

\* three calls have returned, the first and the second with references, the
\* second file in another directory than the first
C25_WitnessThreeCalls ==
    /\ serial.active /\ Len(serial.settled) = 3
    /\ \A c \in 1..3 : serial.settled[c].state = "resolved"
    /\ Len(ImagesOf(1)) = 2 /\ Len(ImagesOf(2)) = 1 /\ Len(ImagesOf(3)) = 2

====
